---- MODULE Spec2Model ----
(***************************************************************************)
(* A model of InsiderTracker (src/main.py): the document fetch with its    *)
(* five-minute dataset cache, table extraction, column coercion, the       *)
(* market-cap memo and the query / filter operations.                      *)
(*                                                                         *)
(* Time is counted in minutes.  Cell texts of the numeric and date columns *)
(* are sequences of one-character strings, so that the coercions of        *)
(* process_insider_data are computed rather than assumed.  A DataFrame is  *)
(* [cols |-> column names, rows |-> sequence of rows], a row being a       *)
(* function from column name to value.  DataFrame objects live in `heap`   *)
(* under an object identifier; a reference is an identifier or NoneRef.    *)
(***************************************************************************)
EXTENDS Integers, Sequences, FiniteSets, TLC

VARIABLES
    av_api_key,         \* TRUE iff ALPHA_VANTAGE_API_KEY was set at construction
    _cached_data,       \* reference to the cached DataFrame, or NoneRef
    _last_fetch_time,   \* minute of the last cache update, or NoTime
    _market_cap_cache,  \* function: ticker -> market cap, on the memoised tickers
    heap,               \* function: live object identifier -> DataFrame
    now,                \* the clock, datetime.now(), in minutes
    ret,                \* the last operation: its name, arguments and result
    asked,              \* the tickers the provider has been asked about
    document,           \* extraction: the table handed to the extractor
    extracted,          \* extraction: [headers, rows] read from `document`
    pc                  \* extraction: "ready" or "extracted"

vars == <<av_api_key, _cached_data, _last_fetch_time, _market_cap_cache, heap,
          now, ret, asked, document, extracted, pc>>

----------------------------------------------------------------------------
(* Bounds of the model *)

MaxRows == 2        \* data rows of a fetched document
MaxTime == 5        \* minutes the clock may advance past StartTime
NumObj == 2         \* object identifiers
MaxTrs == 4         \* table rows of a document handed to the extractor alone

(* Program constants *)

NoneRef == 0                \* None, as a reference
NoTime == -1                \* None, as a time
CacheMinutes == 5           \* _cache_duration
MinutesPerDay == 1440       \* timedelta(days = 1)

StartTime == 2 * MinutesPerDay      \* midnight of day 2
ObjIds == 1..NumObj

Tickers == {"A", "B"}
Digits == <<"0", "1", "2", "3", "4", "5", "6", "7", "8", "9">>

----------------------------------------------------------------------------
(* Text coercions *)

IsDigit(c) == \E i \in 1..10 : Digits[i] = c
DigitVal(c) == (CHOOSE i \in 1..10 : Digits[i] = c) - 1

\* str.replace(ch, ''): the text without every occurrence of ch
StrReplace(s, ch) == SelectSeq(s, LAMBDA c : c /= ch)

RECURSIVE DecimalValue(_)
DecimalValue(s) ==
    IF s = <<>> THEN 0
    ELSE 10 * DecimalValue(SubSeq(s, 1, Len(s) - 1)) + DigitVal(s[Len(s)])

\* float(text) on the texts of the model: a non-empty run of digits
CanFloat(s) == Len(s) > 0 /\ \A i \in 1..Len(s) : IsDigit(s[i])
ToFloat(s) == DecimalValue(s)

\* pd.to_datetime on a date text: the day's midnight, in minutes
CanDate(s) == Len(s) > 0 /\ \A i \in 1..Len(s) : IsDigit(s[i])
ToDatetime(s) == DecimalValue(s) * MinutesPerDay

----------------------------------------------------------------------------
(* Floating-point percentages: a ratio, an infinity or a NaN *)

PctZero == [kind |-> "fin", num |-> 0, den |-> 1]

\* (value / cap) * 100 as pandas computes it: a zero divisor gives inf or NaN
PctOf(value, cap) ==
    IF cap = 0
    THEN (IF value = 0 THEN [kind |-> "nan", num |-> 0, den |-> 0]
                       ELSE [kind |-> "inf", num |-> 1, den |-> 0])
    ELSE [kind |-> "fin", num |-> 100 * value, den |-> cap]

\* p >= x for a finite threshold x
PctGeq(p, x) ==
    CASE p.kind = "nan" -> FALSE
      [] p.kind = "inf" -> TRUE
      [] OTHER -> p.num >= x * p.den

PctIsZero(p) == p.kind = "fin" /\ p.num = 0

----------------------------------------------------------------------------
(* Table extraction, fetch_insider_data lines 88-106 *)

\* A table row <tr>: whether it carries class header-row, the tag of its
\* cells (th or td) and the visible text of each cell.
Tr(hdr, tag, cells) == [hdr |-> hdr, tag |-> tag, cells |-> cells]

\* table.find('tr', {'class': 'header-row'}) or table.find('tr')
HeaderRow(trs) ==
    IF \E i \in 1..Len(trs) : trs[i].hdr
    THEN trs[CHOOSE i \in 1..Len(trs) :
                 trs[i].hdr /\ \A j \in 1..(i - 1) : ~trs[j].hdr]
    ELSE trs[1]

\* the texts of the th and td cells of the header row
ExtractHeaders(trs) == IF trs = <<>> THEN <<>> ELSE HeaderRow(trs).cells

\* tr.find_all('td'): the td cells of one row
TdCells(tr) == IF tr.tag = "td" THEN tr.cells ELSE <<>>

\* a slip in line 103: rows shorter than the header are kept too
RowKeptShorter(row, headers) == row /= <<>> /\ Len(row) <= Len(headers)

\* if row and len(row) == len(headers)
RowKept(row, headers) == row /= <<>> /\ Len(row) = Len(headers)

\* the loop over table.find_all('tr')[1:]
RECURSIVE ExtractLoop(_, _, _)
ExtractLoop(data_rows, headers, rows) ==
    IF data_rows = <<>> THEN rows
    ELSE LET row == TdCells(Head(data_rows)) IN
         ExtractLoop(Tail(data_rows), headers,
                     IF RowKept(row, headers) THEN Append(rows, row) ELSE rows)

ExtractRows(trs) ==
    IF trs = <<>> THEN <<>>
    ELSE ExtractLoop(Tail(trs), ExtractHeaders(trs), <<>>)

\* one row of pd.DataFrame(rows, columns=headers): column name -> cell
RowOf(cells, headers) ==
    [c \in {headers[k] : k \in 1..Len(headers)} |->
        cells[CHOOSE k \in 1..Len(headers) : headers[k] = c]]

RECURSIVE RowsOf(_, _)
RowsOf(rows, headers) ==
    IF rows = <<>> THEN <<>>
    ELSE <<RowOf(Head(rows), headers)>> \o RowsOf(Tail(rows), headers)

\* pd.DataFrame(rows, columns=headers)
DataFrame(rows, headers) == [cols |-> headers, rows |-> RowsOf(rows, headers)]

\* df.empty
DfEmpty(df) == df.rows = <<>> \/ df.cols = <<>>

HasCol(df, c) == \E k \in 1..Len(df.cols) : df.cols[k] = c

\* one row with column c added (or overwritten) holding v
WithCol(row, c, v) ==
    [k \in (DOMAIN row) \cup {c} |-> IF k = c THEN v ELSE row[k]]

\* the columns with c appended when it is new
ColsWith(cols, c) ==
    IF \E k \in 1..Len(cols) : cols[k] = c THEN cols ELSE Append(cols, c)

----------------------------------------------------------------------------
(* The market-cap provider and its memo, _get_market_cap lines 37-56 *)

\* What fd.get_company_overview(ticker) does on one call: it raises, or it
\* returns an overview whose MarketCapitalization field may be absent.
Overview(raises, has, cap) == [raises |-> raises, has |-> has, cap |-> cap]

ProviderResponses ==
    { Overview(TRUE, FALSE, <<>>),
      Overview(FALSE, FALSE, <<>>),
      Overview(FALSE, TRUE, <<"1", "0", "0", "0", "0", "0">>) }

\* overview.get('MarketCapitalization', 0)
OverviewGet(r) == IF r.has THEN r.cap ELSE <<"0">>

\* The provider calls made: the tickers asked about so far, and those among
\* them that were asked about once more.
Looks(seen, again) == [seen |-> seen, again |-> again]

\* The state the resolver reads and writes, with the value it returns.
CapResult(value, cache, looks) ==
    [value |-> value, cache |-> cache, looks |-> looks]

\* one external lookup, lines 46-56: the result is memoised only when the
\* call and the float conversion both succeed
LookupMarketCap(ticker, cache, looks, r) ==
    LET counted == Looks(looks.seen \cup {ticker},
                         IF ticker \in looks.seen
                         THEN looks.again \cup {ticker} ELSE looks.again)
    IN
    IF r.raises \/ ~CanFloat(OverviewGet(r))
    THEN CapResult(0, cache, counted)
    ELSE LET market_cap == ToFloat(OverviewGet(r)) IN
         CapResult(market_cap,
                   [t \in (DOMAIN cache) \cup {ticker} |->
                       IF t = ticker THEN market_cap ELSE cache[t]],
                   counted)

\* _get_market_cap(ticker), the provider answering r if it is asked
GetMarketCap(key, ticker, cache, looks, r) ==
    IF ~key THEN CapResult(0, cache, looks)
    ELSE IF ticker \in DOMAIN cache THEN CapResult(cache[ticker], cache, looks)
    ELSE LookupMarketCap(ticker, cache, looks, r)

----------------------------------------------------------------------------
(* process_insider_data, lines 122-151 *)

\* df['Ticker'].apply(self._get_market_cap): rows in order, the memo threaded
\* through; resp[i] is the provider's answer should row i need a lookup
RECURSIVE ApplyMarketCap(_, _, _, _, _, _)
ApplyStep(rows, i, key, g, resp) ==
    ApplyMarketCap([rows EXCEPT ![i] = WithCol(@, "Market Cap", g.value)],
                   i + 1, key, g.cache, g.looks, resp)

ApplyMarketCap(rows, i, key, cache, looks, resp) ==
    IF i > Len(rows) THEN [rows |-> rows, cache |-> cache, looks |-> looks]
    ELSE ApplyStep(rows, i, key,
                   GetMarketCap(key, rows[i]["Ticker"], cache, looks, resp[i]),
                   resp)

\* df['Trade % of Market Cap'] = (df['Value ($)'] / df['Market Cap']) * 100
RECURSIVE AddPercent(_)
AddPercent(rows) ==
    IF rows = <<>> THEN <<>>
    ELSE <<WithCol(Head(rows), "Trade % of Market Cap",
                   PctOf(Head(rows)["Value ($)"], Head(rows)["Market Cap"]))>>
         \o AddPercent(Tail(rows))

\* df['Market Cap'] = 0 ; df['Trade % of Market Cap'] = 0
RECURSIVE AddZeros(_)
AddZeros(rows) ==
    IF rows = <<>> THEN <<>>
    ELSE <<WithCol(WithCol(Head(rows), "Market Cap", 0),
                   "Trade % of Market Cap", PctZero)>>
         \o AddZeros(Tail(rows))

\* insert row r into rows sorted by 'Value ($)' descending, after its equals
RECURSIVE InsertByValue(_, _)
InsertByValue(sorted, r) ==
    IF sorted = <<>> THEN <<r>>
    ELSE IF Head(sorted)["Value ($)"] >= r["Value ($)"]
         THEN <<Head(sorted)>> \o InsertByValue(Tail(sorted), r)
         ELSE <<r>> \o sorted

\* df.sort_values('Value ($)', ascending=False)
RECURSIVE SortByValue(_, _)
SortByValue(rows, sorted) ==
    IF rows = <<>> THEN sorted
    ELSE SortByValue(Tail(rows), InsertByValue(sorted, Head(rows)))

CostText(s) == StrReplace(StrReplace(s, "$"), ",")
ValueText(s) == StrReplace(s, ",")
CanValue(s) == CanFloat(ValueText(s))
CanCost(s) == CanFloat(CostText(s))
ValueOf(s) == ToFloat(ValueText(s))
CostOf(s) == ToFloat(CostText(s))

\* lines 129-133 on rows every cell of which converts: each of the three
\* columns replaced by its typed values
RECURSIVE TypeRows(_)
TypeRows(rows) ==
    IF rows = <<>> THEN <<>>
    ELSE <<[Head(rows) EXCEPT !["Date"] = ToDatetime(@),
                              !["Value ($)"] = ValueOf(@),
                              !["Cost"] = CostOf(@)]>>
         \o TypeRows(Tail(rows))

\* the statements of the try block that can raise, lines 129-133 (and the
\* 'Ticker' column read on line 138 when a key is configured)
ProcessRaises(df, key) ==
    \/ ~HasCol(df, "Date")
    \/ \E i \in 1..Len(df.rows) : ~CanDate(df.rows[i]["Date"])
    \/ ~HasCol(df, "Value ($)")
    \/ \E i \in 1..Len(df.rows) : ~CanValue(df.rows[i]["Value ($)"])
    \/ ~HasCol(df, "Cost")
    \/ \E i \in 1..Len(df.rows) : ~CanCost(df.rows[i]["Cost"])
    \/ key /\ ~HasCol(df, "Ticker")

ProcessResult(ok, df, cache, looks) ==
    [ok |-> ok, df |-> df, cache |-> cache, looks |-> looks]

\* the columns after lines 138-142
ProcessedCols(df) ==
    ColsWith(ColsWith(df.cols, "Market Cap"), "Trade % of Market Cap")

\* lines 138-139 and 145, `capped` being the rows with their market caps
WithKey(df, capped) ==
    ProcessResult(TRUE,
                  [cols |-> ProcessedCols(df),
                   rows |-> SortByValue(AddPercent(capped.rows), <<>>)],
                  capped.cache, capped.looks)

\* lines 141-142 and 145
WithoutKey(df, typed, cache, looks) ==
    ProcessResult(TRUE,
                  [cols |-> ProcessedCols(df),
                   rows |-> SortByValue(AddZeros(typed), <<>>)],
                  cache, looks)

\* a slip in line 136: the percentage is computed with or without a key
ProcessAlwaysEnrich(df, key, cache, looks, resp) ==
    IF DfEmpty(df) \/ ProcessRaises(df, key)
    THEN ProcessResult(FALSE, df, cache, looks)
    ELSE WithKey(df, ApplyMarketCap(TypeRows(df.rows), 1, key, cache, looks,
                                    resp))

\* process_insider_data(df): ok = FALSE stands for the None it returns
ProcessInsiderData(df, key, cache, looks, resp) ==
    IF DfEmpty(df) \/ ProcessRaises(df, key)
    THEN ProcessResult(FALSE, df, cache, looks)
    ELSE IF key
    THEN WithKey(df, ApplyMarketCap(TypeRows(df.rows), 1, key, cache, looks,
                                    resp))
    ELSE WithoutKey(df, TypeRows(df.rows), cache, looks)

----------------------------------------------------------------------------
(* The documents the source may answer with *)

FullHeader == <<"Ticker", "Date", "Transaction", "Cost", "Value ($)">>
NoCostHeader == <<"Ticker", "Date", "Transaction", "Value ($)">>

HeaderTrs ==
    <<Tr(FALSE, "th", FullHeader), Tr(FALSE, "th", NoCostHeader),
      Tr(FALSE, "th", <<>>)>>

\* Data rows: three well-formed ones and one a cell short of the full header.
RowKinds ==
    <<Tr(FALSE, "td", <<"A", <<"2">>, "Buy", <<"$", "1", "0">>,
                         <<"2", ",", "0", "0", "0">>>>),
      Tr(FALSE, "td", <<"B", <<"1">>, "Sale", <<"5">>, <<"0">>>>),
      Tr(FALSE, "td", <<"A", <<"2">>, "Sale", <<"7">>, <<"5", "0", "0">>>>),
      Tr(FALSE, "td", <<"B", <<"2">>, "Sale", <<"5">>>>)>>

\* a row whose date does not parse, and one with a currency sign in its value
BadDateTr == Tr(FALSE, "td", <<"B", <<"x">>, "Buy", <<"1">>, <<"5">>>>)
BadValueTr == Tr(FALSE, "td", <<"B", <<"2">>, "Buy", <<"1">>, <<"$", "5">>>>)

RECURSIVE SeqsUpTo(_, _)
SeqsUpTo(S, n) ==
    IF n = 0 THEN {<<>>}
    ELSE LET shorter == SeqsUpTo(S, n - 1) IN
         shorter \cup {Append(q, x) : q \in shorter, x \in S}

RECURSIVE TrsAt(_, _)
TrsAt(kinds, idx) ==
    IF idx = <<>> THEN <<>> ELSE <<kinds[Head(idx)]>> \o TrsAt(kinds, Tail(idx))

\* An HTTP response: its status, whether either selector finds the table,
\* and the table's rows.
Response(ok, table, trs) == [ok |-> ok, table |-> table, trs |-> trs]

\* Tables that fail past extraction: a date or a value that does not
\* convert, a header without the Cost column, a header without cells.
OddTables ==
    { <<HeaderTrs[1], BadDateTr>>,
      <<HeaderTrs[1], RowKinds[1], BadValueTr>>,
      <<HeaderTrs[2], RowKinds[4]>>,
      <<HeaderTrs[3], RowKinds[1]>> }

\* A failed request, a page without the table, the full header over up to
\* MaxRows rows, and the tables above.
Documents ==
    {Response(FALSE, FALSE, <<>>), Response(TRUE, FALSE, <<>>)}
    \cup {Response(TRUE, TRUE, <<HeaderTrs[1]>> \o TrsAt(RowKinds, idx)) :
            idx \in SeqsUpTo(1..Len(RowKinds), MaxRows)}
    \cup {Response(TRUE, TRUE, trs) : trs \in OddTables}

\* the provider's answers during one call: the same to every lookup of it
Answers == {[i \in 1..MaxRows |-> r] : r \in ProviderResponses}

----------------------------------------------------------------------------
(* fetch_insider_data, lines 58-120 *)

NoDf == [cols |-> <<>>, rows |-> <<>>]

\* a slip in line 62: a dataset exactly as old as the TTL still counts
CacheUsableAtTtl(use_cache, t) ==
    /\ use_cache
    /\ _cached_data /= NoneRef
    /\ _last_fetch_time /= NoTime
    /\ t - _last_fetch_time <= CacheMinutes

\* lines 61-62 at time t
CacheUsable(use_cache, t) ==
    /\ use_cache
    /\ _cached_data /= NoneRef
    /\ _last_fetch_time /= NoTime
    /\ t - _last_fetch_time < CacheMinutes

\* What one call does: the document requests made (net), whether lines
\* 112-113 assigned the cache fields (assigned) and to what (stored = FALSE
\* for None), the memo and the lookup counts afterwards, and the DataFrame
\* returned (ok = FALSE for None).
Effect(net, assigned, stored, df, time, cache, looks, ok) ==
    [net |-> net, assigned |-> assigned, stored |-> stored, df |-> df,
     time |-> time, cache |-> cache, looks |-> looks, ok |-> ok]

\* the resolver's state as an operation finds it
LooksNow == Looks(asked, {})

\* the DataFrame self._cached_data refers to
CachedDf == IF _cached_data /= NoneRef THEN heap[_cached_data] ELSE NoDf

FetchFailed(net) ==
    Effect(net, FALSE, FALSE, NoDf, _last_fetch_time, _market_cap_cache,
           LooksNow, FALSE)

\* lines 112-116, p being what process_insider_data returned: both cache
\* fields are assigned, and copying None raises
StoreProcessed(p, t) ==
    Effect(1, TRUE, p.ok, IF p.ok THEN p.df ELSE NoDf, t, p.cache, p.looks,
           p.ok)

\* lines 106-116 on the DataFrame built from the table
FetchTable(df, t, resp) ==
    IF DfEmpty(df) THEN FetchFailed(1)
    ELSE StoreProcessed(ProcessInsiderData(df, av_api_key, _market_cap_cache,
                                           LooksNow, resp), t)

FetchInsiderData(use_cache, t, d, resp) ==
    IF CacheUsable(use_cache, t)
    THEN Effect(0, FALSE, FALSE, CachedDf, _last_fetch_time,
                _market_cap_cache, LooksNow, TRUE)
    ELSE IF ~d.ok \/ ~d.table THEN FetchFailed(1)
    ELSE FetchTable(DataFrame(ExtractRows(d.trs), ExtractHeaders(d.trs)),
                    t, resp)

----------------------------------------------------------------------------
(* The query predicates *)

KeyNames ==
    {"min_value", "max_days", "transaction_types", "min_market_cap_percent",
     "tickers"}

\* A filters dict: the keys present and the value under each.
Criteria(keys, min_value, max_days, types, min_pct, tickers) ==
    [keys |-> keys, min_value |-> min_value, max_days |-> max_days,
     transaction_types |-> types, min_market_cap_percent |-> min_pct,
     tickers |-> tickers]

NoCriteria == Criteria({}, 0, 0, {}, 0, {})

\* df[df['Value ($)'] >= v]
ByMinValue(rows, v) == SelectSeq(rows, LAMBDA r : r["Value ($)"] >= v)

\* a slip in line 219: the cutoff itself is let through
ByMaxDaysInclusive(rows, days, t) ==
    SelectSeq(rows, LAMBDA r : r["Date"] >= t - days * MinutesPerDay)

\* df[df['Date'] > datetime.now() - timedelta(days=days)]
ByMaxDays(rows, days, t) ==
    SelectSeq(rows, LAMBDA r : r["Date"] > t - days * MinutesPerDay)

\* df[df['Transaction'].isin(types)]
ByTypes(rows, types) == SelectSeq(rows, LAMBDA r : r["Transaction"] \in types)

\* df[df['Trade % of Market Cap'] >= p]
ByPercent(rows, p) ==
    SelectSeq(rows, LAMBDA r : PctGeq(r["Trade % of Market Cap"], p))

\* df[df['Ticker'].isin(tickers)]
ByTickers(rows, tickers) == SelectSeq(rows, LAMBDA r : r["Ticker"] \in tickers)

\* line 224: the percentage criterion is applied only with a key configured
PercentApplies(f, key) == "min_market_cap_percent" \in f.keys /\ key

\* filter_trades lines 214-230 on the rows of df
FilterRows(rows, f, key, t) ==
    LET r1 == IF "min_value" \in f.keys THEN ByMinValue(rows, f.min_value)
              ELSE rows
        r2 == IF "max_days" \in f.keys THEN ByMaxDays(r1, f.max_days, t)
              ELSE r1
        r3 == IF "transaction_types" \in f.keys
              THEN ByTypes(r2, f.transaction_types) ELSE r2
        r4 == IF PercentApplies(f, key)
              THEN ByPercent(r3, f.min_market_cap_percent) ELSE r3
    IN IF "tickers" \in f.keys THEN ByTickers(r4, f.tickers) ELSE r4

\* whether any statement of lines 214-228 rebinds df to a new DataFrame
FilterRebinds(f, key) ==
    \/ "min_value" \in f.keys
    \/ "max_days" \in f.keys
    \/ "transaction_types" \in f.keys
    \/ PercentApplies(f, key)
    \/ "tickers" \in f.keys

\* get_recent_trades lines 162-164
RecentRows(rows, f, t) ==
    SelectSeq(rows, LAMBDA r : /\ r["Date"] > t - f.max_days * MinutesPerDay
                               /\ r["Value ($)"] >= f.min_value)

----------------------------------------------------------------------------
(* Objects *)

\* the least identifier not in `live`
FreshId(live) ==
    CHOOSE i \in ObjIds : i \notin live /\ \A j \in ObjIds \ live : i <= j

\* The outcome of an operation: op its name, use_cache and crit its
\* arguments, res the reference it returned (NoneRef for None), net the
\* document requests it made, again the tickers it asked the provider about
\* although they had been asked about before.
Outcome(op, use_cache, crit, res, net, again) ==
    [op |-> op, use_cache |-> use_cache, crit |-> crit, res |-> res,
     net |-> net, again |-> again]

Idle == Outcome("idle", FALSE, NoCriteria, NoneRef, 0, {})

\* The state after an operation whose fetch (if any) had effect e: the
\* cache refers to cref holding cdf, and the operation returned rref, which
\* holds df unless it is cref.  Objects no longer referenced are dropped.
Commit(op, use_cache, crit, e, cref, cdf, rref, df) ==
    /\ _cached_data' = cref
    /\ _last_fetch_time' = e.time
    /\ _market_cap_cache' = e.cache
    /\ asked' = e.looks.seen
    /\ heap' = [i \in {cref, rref} \ {NoneRef} |->
                   IF i = cref THEN cdf ELSE df]
    /\ ret' = Outcome(op, use_cache, crit, rref, e.net, e.looks.again)
    /\ UNCHANGED <<av_api_key, now, document, extracted, pc>>

\* the reference self._cached_data holds after effect e
CacheRef(e) ==
    IF e.assigned THEN (IF e.stored THEN FreshId({}) ELSE NoneRef)
    ELSE _cached_data

\* An operation returning None (ok = FALSE), the very object the cache
\* refers to (alias) or a new DataFrame df.
FinishAt(op, use_cache, crit, e, cref, ok, alias, df) ==
    Commit(op, use_cache, crit, e, cref,
           IF e.assigned THEN e.df ELSE CachedDf,
           IF ~ok THEN NoneRef ELSE IF alias THEN cref ELSE FreshId({cref}),
           df)

Finish(op, use_cache, crit, e, ok, alias, df) ==
    FinishAt(op, use_cache, crit, e, CacheRef(e), ok, alias, df)

\* the fetch answers matter only to a call that fetches
DocumentsFor(fetches) ==
    IF fetches THEN Documents ELSE {Response(FALSE, FALSE, <<>>)}
AnswersFor(fetches) ==
    IF fetches /\ av_api_key THEN Answers
    ELSE {[i \in 1..MaxRows |-> Overview(TRUE, FALSE, <<>>)]}

----------------------------------------------------------------------------
(* The operations.  The caller makes one call at a time: ret = Idle. *)

\* lines 64 and 116 return a copy
ReturnCopy(use_cache, e) ==
    Finish("fetch_insider_data", use_cache, NoCriteria, e, e.ok, FALSE, e.df)

Fetch ==
    /\ ret = Idle
    /\ \E use_cache \in BOOLEAN :
       \E d \in DocumentsFor(~CacheUsable(use_cache, now)),
          resp \in AnswersFor(~CacheUsable(use_cache, now)) :
           ReturnCopy(use_cache, FetchInsiderData(use_cache, now, d, resp))

\* lines 155-160 and their like: df is the cached object, else a fetch's result
NoFetch ==
    Effect(0, FALSE, FALSE, CachedDf, _last_fetch_time, _market_cap_cache,
           LooksNow, TRUE)

EnsureData(d, resp) ==
    IF _cached_data /= NoneRef THEN NoFetch
    ELSE FetchInsiderData(TRUE, now, d, resp)

\* if df is None or df.empty: return None
HaveData(e) == e.ok /\ ~DfEmpty(e.df)

\* the rows the mask of query `op` lets through, lines 163-164, 178 and 193
MaskRows(op, rows, f) ==
    CASE op = "get_recent_trades" -> RecentRows(rows, f, now)
      [] op = "get_trades_by_type" -> ByTypes(rows, f.transaction_types)
      [] op = "get_trades_by_market_cap_percent" ->
            ByPercent(rows, f.min_market_cap_percent)

\* A query that masks the rows: None without data, else a new DataFrame.
QueryOn(op, f, e) ==
    Finish(op, TRUE, f, e, HaveData(e), FALSE,
           IF HaveData(e)
           THEN [cols |-> e.df.cols, rows |-> MaskRows(op, e.df.rows, f)]
           ELSE NoDf)

Query(op, f, d, resp) == QueryOn(op, f, EnsureData(d, resp))

RecentArgs ==
    {Criteria({"max_days", "min_value"}, v, 1, {}, 0, {}) : v \in {0, 1000}}

GetRecentTrades ==
    /\ ret = Idle
    /\ \E f \in RecentArgs :
       \E d \in DocumentsFor(_cached_data = NoneRef),
          resp \in AnswersFor(_cached_data = NoneRef) :
           Query("get_recent_trades", f, d, resp)

TypeArgs ==
    {Criteria({"transaction_types"}, 0, 0, ty, 0, {}) :
        ty \in {{"Buy"}, {"Buy", "Sale"}}}

GetTradesByType ==
    /\ ret = Idle
    /\ \E f \in TypeArgs :
       \E d \in DocumentsFor(_cached_data = NoneRef),
          resp \in AnswersFor(_cached_data = NoneRef) :
           Query("get_trades_by_type", f, d, resp)

PercentArgs ==
    {Criteria({"min_market_cap_percent"}, 0, 0, {}, p, {}) : p \in {0, 1}}

\* lines 182-184: without a key, None and nothing else
PercentUnavailable(f) ==
    Finish("get_trades_by_market_cap_percent", TRUE, f,
           [NoFetch EXCEPT !.df = NoDf], FALSE, FALSE, NoDf)

GetTradesByMarketCapPercent ==
    /\ ret = Idle
    /\ \E f \in PercentArgs :
        IF ~av_api_key THEN PercentUnavailable(f)
        ELSE \E d \in DocumentsFor(_cached_data = NoneRef),
                resp \in AnswersFor(_cached_data = NoneRef) :
                Query("get_trades_by_market_cap_percent", f, d, resp)

\* The filters tried: none, each key alone, the two combinations of main()
\* (lines 255-260 and 266-269) and all five keys together.
FilterKeySets ==
    {{}, KeyNames,
     {"transaction_types", "min_value", "max_days"},
     {"min_market_cap_percent", "max_days"}}
    \cup {{k} : k \in KeyNames}

FilterArgs ==
    {Criteria(keys, 1000, 1, {"Buy"}, 1, {"A"}) : keys \in FilterKeySets}

\* With no statement rebinding df, line 230 returns the object read on line
\* 206, or the copy line 208 received.
FilterOn(f, e) ==
    Finish("filter_trades", TRUE, f, e, HaveData(e),
           HaveData(e) /\ ~FilterRebinds(f, av_api_key)
               /\ _cached_data /= NoneRef,
           IF HaveData(e)
           THEN [cols |-> e.df.cols,
                 rows |-> FilterRows(e.df.rows, f, av_api_key, now)]
           ELSE NoDf)

FilterTrades ==
    /\ ret = Idle
    /\ \E f \in FilterArgs :
       \E d \in DocumentsFor(_cached_data = NoneRef),
          resp \in AnswersFor(_cached_data = NoneRef) :
           FilterOn(f, EnsureData(d, resp))

\* The caller changes the DataFrame it was handed, in place: it drops the
\* first row (df.drop(df.index[0], inplace=True)).
Mutate ==
    /\ ret.res /= NoneRef
    /\ heap[ret.res].rows /= <<>>
    /\ heap' = [heap EXCEPT ![ret.res].rows = Tail(@)]
    /\ ret' = [ret EXCEPT !.op = "mutate"]
    /\ UNCHANGED <<av_api_key, _cached_data, _last_fetch_time,
                   _market_cap_cache, now, asked, document, extracted, pc>>

\* The caller lets go of the result and calls again at once, just before
\* the cache would expire, or exactly when it does.
Elapsed == {0, CacheMinutes - 1, CacheMinutes}

Wait ==
    \E d \in Elapsed :
        /\ ret /= Idle
        /\ now + d <= StartTime + MaxTime
        /\ now' = now + d
        /\ ret' = Idle
        /\ heap' = [i \in (DOMAIN heap) \cap {_cached_data} |-> heap[i]]
        /\ UNCHANGED <<av_api_key, _cached_data, _last_fetch_time,
                       _market_cap_cache, asked, document, extracted, pc>>

----------------------------------------------------------------------------
(* __init__, lines 19-35 *)

NoDocument == Response(TRUE, TRUE, <<>>)
NothingExtracted == [headers |-> <<>>, rows |-> <<>>]

Init ==
    /\ av_api_key \in BOOLEAN
    /\ _cached_data = NoneRef
    /\ _last_fetch_time = NoTime
    /\ _market_cap_cache = <<>>
    /\ heap = <<>>
    /\ now = StartTime
    /\ ret = Idle
    /\ asked = {}
    /\ document = NoDocument
    /\ extracted = NothingExtracted
    /\ pc = "ready"

Next ==
    \/ Fetch
    \/ GetRecentTrades
    \/ GetTradesByType
    \/ GetTradesByMarketCapPercent
    \/ FilterTrades
    \/ Mutate
    \/ Wait

Spec == Init /\ [][Next]_vars

----------------------------------------------------------------------------
(* Extraction alone: a table is drawn and lines 88-104 run on it *)

\* Rows of none, one or two cells, as data cells or header cells, with and
\* without the header-row class.
TrKinds ==
    { Tr(FALSE, "td", <<>>), Tr(FALSE, "td", <<"a">>), Tr(FALSE, "td", <<"b">>),
      Tr(FALSE, "td", <<"a", "b">>), Tr(FALSE, "th", <<>>),
      Tr(FALSE, "th", <<"h">>), Tr(FALSE, "th", <<"h", "k">>),
      Tr(TRUE, "th", <<"h", "k">>), Tr(TRUE, "td", <<"a", "b">>) }

Tables == SeqsUpTo(TrKinds, MaxTrs)

InitExtract ==
    /\ av_api_key = FALSE
    /\ _cached_data = NoneRef
    /\ _last_fetch_time = NoTime
    /\ _market_cap_cache = <<>>
    /\ heap = <<>>
    /\ now = StartTime
    /\ ret = Idle
    /\ asked = {}
    /\ document \in {Response(TRUE, TRUE, trs) : trs \in Tables}
    /\ extracted = NothingExtracted
    /\ pc = "ready"

ExtractTable ==
    /\ pc = "ready"
    /\ extracted' = [headers |-> ExtractHeaders(document.trs),
                     rows |-> ExtractRows(document.trs)]
    /\ pc' = "extracted"
    /\ UNCHANGED <<av_api_key, _cached_data, _last_fetch_time,
                   _market_cap_cache, heap, now, ret, asked, document>>

NextExtract == ExtractTable

SpecExtract == InitExtract /\ [][NextExtract]_vars

----------------------------------------------------------------------------
(* Properties *)

QueryOps ==
    {"get_recent_trades", "get_trades_by_type",
     "get_trades_by_market_cap_percent", "filter_trades"}

\* the step is a call of operation op
Calls(op) == ret = Idle /\ ret'.op = op

\* C1: a fetch that fails at any stage returns None and leaves _cached_data
\* and _last_fetch_time (and the cached dataset) exactly as they were.
C1_FailedFetchKeepsCache ==
    [][(Calls("fetch_insider_data") /\ ret'.res = NoneRef)
          => /\ _cached_data' = _cached_data
             /\ _last_fetch_time' = _last_fetch_time
             /\ CachedDf' = CachedDf]_vars

\* C2: no operation returns data taken from a cached dataset whose age is at
\* least the five-minute TTL: data returned without a new fetch is fresh.
C2_NoExpiredData ==
    (ret.op \in QueryOps \cup {"fetch_insider_data"}
        /\ ret.res /= NoneRef /\ ret.net = 0)
      => now - _last_fetch_time < CacheMinutes

C4_ReturnedIsDistinct ==
    (ret.op \in QueryOps \cup {"fetch_insider_data"} /\ ret.res /= NoneRef)
      => ret.res /= _cached_data

\* C5: the provider is asked about a ticker at most once, whether the lookup
\* succeeded or failed.
C5_OneLookupPerTicker == ret.again = {}

\* C6: a record whose market cap is 0 has a percentage of exactly 0.
C6_ZeroCapZeroPercent ==
    \A i \in 1..Len(CachedDf.rows) :
        CachedDf.rows[i]["Market Cap"] = 0
          => PctIsZero(CachedDf.rows[i]["Trade % of Market Cap"])

\* record r meets criterion k of filters f; the percentage criterion counts
\* only `withPct`
Meets(r, f, k, withPct) ==
    CASE k = "min_value" -> r["Value ($)"] >= f.min_value
      [] k = "max_days" -> r["Date"] > now - f.max_days * MinutesPerDay
      [] k = "transaction_types" -> r["Transaction"] \in f.transaction_types
      [] k = "min_market_cap_percent" ->
            withPct => PctGeq(r["Trade % of Market Cap"],
                              f.min_market_cap_percent)
      [] k = "tickers" -> r["Ticker"] \in f.tickers

Selected(rows, f, withPct) ==
    SelectSeq(rows, LAMBDA r : \A k \in f.keys : Meets(r, f, k, withPct))

\* C7 as stated: filter_trades returns exactly the cached records that meet
\* every criterion given.
C7_FilterIsConjunction ==
    (ret.op = "filter_trades" /\ ret.res /= NoneRef)
      => heap[ret.res].rows = Selected(CachedDf.rows, ret.crit, TRUE)

\* C7 as amended: filter_trades returns exactly the cached records that meet
\* every criterion given, min_market_cap_percent counting only when a
\* provider key is configured; it returns None only when there is no record.
C7_FilterIsConjunctionWithKey ==
    ret.op = "filter_trades"
      => IF ret.res /= NoneRef
         THEN heap[ret.res].rows = Selected(CachedDf.rows, ret.crit, av_api_key)
         ELSE CachedDf.rows = <<>>

\* three criteria at once keep one record and drop another
C7_Witness ==
    /\ ret.op = "filter_trades" /\ ret.res /= NoneRef
    /\ Cardinality(ret.crit.keys) >= 3
    /\ Len(heap[ret.res].rows) >= 1
    /\ Len(heap[ret.res].rows) < Len(CachedDf.rows)

\* C8: without a provider key get_trades_by_market_cap_percent returns an
\* empty dataset, not None.
C8_EmptyNotNone ==
    (ret.op = "get_trades_by_market_cap_percent" /\ ~av_api_key)
      => ret.res /= NoneRef /\ heap[ret.res].rows = <<>>

\* C9: without a provider key the provider is never asked, the memo stays
\* empty and every cached record has market cap 0 and percentage 0.
C9_NoKeyNoLookup ==
    ~av_api_key
      => /\ asked = {}
         /\ ret.again = {}
         /\ DOMAIN _market_cap_cache = {}
         /\ \A i \in 1..Len(CachedDf.rows) :
               /\ CachedDf.rows[i]["Market Cap"] = 0
               /\ PctIsZero(CachedDf.rows[i]["Trade % of Market Cap"])

\* without a key, a dataset of two records is cached
C9_Witness ==
    ~av_api_key /\ _cached_data /= NoneRef /\ Len(CachedDf.rows) >= 2

\* the td cells of the rows after the first
DataCells(trs) == [i \in 1..(Len(trs) - 1) |-> TdCells(trs[i + 1])]

\* C10 as stated: the rows kept are, in order, exactly the data rows whose
\* cell count equals the header count.
C10_KeptIffSameCount ==
    pc = "extracted"
      => extracted.rows =
            SelectSeq(DataCells(document.trs),
                      LAMBDA r : Len(r) = Len(extracted.headers))

\* C10 as amended: the rows kept are, in order, exactly the data rows that
\* have cells and as many of them as the header.
C10_KeptIffSameNonzeroCount ==
    pc = "extracted"
      => extracted.rows =
            SelectSeq(DataCells(document.trs),
                      LAMBDA r : Len(r) = Len(extracted.headers) /\ Len(r) > 0)

\* a malformed row between two kept ones
C10_Witness ==
    /\ pc = "extracted"
    /\ Len(document.trs) = 4
    /\ Len(TdCells(document.trs[3])) /= Len(extracted.headers)
    /\ Len(extracted.rows) = 2
    /\ extracted.rows[1] /= extracted.rows[2]

====
